---- MODULE Spec2Model ----
(***************************************************************************)
(* Turn-taking and connection management of the voice service:             *)
(* app/api/ws.py (AudioBuffer, ConnectionManager, websocket_endpoint),     *)
(* app/pipeline/streaming_vad.py (process_chunk), app/api/models.py        *)
(* (Session.start_turn) and app/api/session_manager.py.                    *)
(*                                                                         *)
(* Scheduling: one asyncio event loop.  No `async with self._lock` body    *)
(* contains an await, so the lock is never contended and the code between  *)
(* two real suspension points (send_text, sleep, receive) is one atomic    *)
(* step.  A broadcast that is the last thing a handler does is folded into *)
(* the handler's step; the broadcast in the middle of                      *)
(* _trigger_processing_once is a suspension point of its own.              *)
(*                                                                         *)
(* Bytes are written run-length encoded: <<v, n>> stands for n bytes of    *)
(* value v, and a byte string is a sequence of runs in which neighbouring   *)
(* runs differ in value and no run is empty.  An optional value (a dict     *)
(* key that may be missing, a Python None) is <<>> when missing and <<x>>  *)
(* when present.                                                           *)
(*                                                                         *)
(* Spec follows the websocket handlers, the confirmation timer and the     *)
(* _process_audio task of one session with a speaker and a viewer.         *)
(* SpecSend follows one send_event call send by send while connections     *)
(* come and go.  SpecPrefix applies get_audio_data_up_to_samples to        *)
(* accumulators and sample counts drawn from small sets.  SpecRunner       *)
(* follows process_session_audio (app/pipeline/pipeline_runner.py) as      *)
(* POST /session/stop queues it, SpecRegistry the session registry with    *)
(* its capacity eviction and its cleanup sweep, SpecIso two sessions side  *)
(* by side.  SpecEndpoint is Spec with the speaker alone, SpecVad one      *)
(* detector state fed frame by frame, SpecOrder several send_event calls   *)
(* to one session in flight at a time.                                     *)
(***************************************************************************)
EXTENDS Integers, Sequences, FiniteSets, TLC

\* ---------------------------------------------------------------- bounds
MaxChunks == 3      \* chunks a client sends in one capture
MaxTimers == 2      \* confirmation timer tasks alive at a time
MaxTasks == 1       \* pipeline tasks alive at a time
MaxTurns == 2       \* turns created per run
CountCap == 2       \* pipeline starts per turn are counted up to this

\* ------------------------------------------------------ program constants
AUDIO_SAMPLE_RATE == 16000
ENDPOINT_POST_ROLL_MS == 200
BYTES_PER_SAMPLE == 2

SessionIds == {"s1"}
AllSessionIds == {"s1", "s2"}  \* the keys of the maps; SpecIso uses both
RegIds == {"r1", "r2", "r3"}   \* session ids clients ask the registry for
Conns == {"c1", "c2", "c3"}
Speakers == {"c1"}          \* the connections that stream audio
Viewers == {"c2"}           \* the connections that only listen
Configs == {"cfgA"}
EmptyConfig == "{}"

Absent == <<>>
Some(x) == <<x>>
Has(o) == o # <<>>
Get(o) == o[1]

NoSample == -1      \* StreamingVADState.last_end_sample = None
NoTurn == 0         \* Session.current_turn = None

\* ------------------------------------------------------------------ bytes
Bytes(v, n) == IF n = 0 THEN <<>> ELSE << <<v, n>> >>

RECURSIVE BLen(_)
BLen(b) == IF b = <<>> THEN 0 ELSE b[1][2] + BLen(Tail(b))

BCat(a, b) ==
    IF a = <<>> THEN b
    ELSE IF b = <<>> THEN a
    ELSE IF a[Len(a)][1] = b[1][1]
         THEN SubSeq(a, 1, Len(a) - 1)
              \o << <<b[1][1], a[Len(a)][2] + b[1][2]>> >>
              \o Tail(b)
         ELSE a \o b

\* data[:k]
RECURSIVE BTake(_, _)
BTake(b, k) ==
    IF k <= 0 \/ b = <<>> THEN <<>>
    ELSE IF b[1][2] <= k THEN BCat(<<b[1]>>, BTake(Tail(b), k - b[1][2]))
    ELSE << <<b[1][1], k>> >>

\* The chunks a client sends: 3201 samples each, one more than the post-roll
\* window, and the n-th chunk of a capture holds the byte value n, so that a
\* lost, repeated or reordered chunk shows in the bytes.
CHUNK_BYTES == 6402
Chunk(n) == Bytes(n, CHUNK_BYTES)

\* ------------------------------------------------------------ AudioBuffer
NewAudioBuffer(config) == [chunks |-> <<>>, config |-> config, total_bytes |-> 0]

add_chunk(buf, chunk) ==
    [buf EXCEPT !.chunks = Append(@, chunk), !.total_bytes = @ + BLen(chunk)]

RECURSIVE JoinChunks(_)
JoinChunks(chunks) ==
    IF chunks = <<>> THEN <<>> ELSE BCat(chunks[1], JoinChunks(Tail(chunks)))

get_audio_data(buf) == JoinChunks(buf.chunks)

\* faulty variant: the sample count is taken for a byte count
get_audio_data_up_to_samples_m(buf, max_samples) ==
    IF max_samples <= 0 THEN <<>>
    ELSE LET max_bytes == max_samples
             data == get_audio_data(buf)
         IN  IF BLen(data) <= max_bytes THEN data ELSE BTake(data, max_bytes)

get_audio_data_up_to_samples(buf, max_samples) ==
    IF max_samples <= 0 THEN <<>>
    ELSE LET max_bytes == max_samples * BYTES_PER_SAMPLE
             data == get_audio_data(buf)
         IN  IF BLen(data) <= max_bytes THEN data ELSE BTake(data, max_bytes)

\* ------------------------------------------------------ StreamingVADState
\* triggered is the VADIterator's own flag: it reports "start" only when
\* not triggered and "end" only when triggered.
NewVadState ==
    [total_samples |-> 0, pending_endpoint |-> FALSE,
     last_end_sample |-> NoSample, triggered |-> FALSE]

VadOutputs(st) == {"none", "error"} \cup (IF st.triggered THEN {"end"} ELSE {"start"})

\* faulty variant: a frame on which the detector raises counts as an endpoint
process_chunk_m(st, chunk, out) ==
    LET n == BLen(chunk) \div BYTES_PER_SAMPLE
        s1 == [st EXCEPT !.total_samples = @ + n]
    IN  IF out = "start"
        THEN [state |-> IF s1.pending_endpoint
                        THEN [s1 EXCEPT !.pending_endpoint = FALSE,
                                        !.last_end_sample = NoSample,
                                        !.triggered = TRUE]
                        ELSE [s1 EXCEPT !.triggered = TRUE],
              end_detected |-> FALSE,
              speech_resumed |-> s1.pending_endpoint]
        ELSE IF out \in {"end", "error"}
        THEN [state |-> [s1 EXCEPT !.pending_endpoint = TRUE,
                                   !.last_end_sample = s1.total_samples,
                                   !.triggered = FALSE],
              end_detected |-> TRUE, speech_resumed |-> FALSE]
        ELSE [state |-> s1, end_detected |-> FALSE, speech_resumed |-> FALSE]

\* process_chunk: the state after the frame and the dict it returns.  The
\* frames are whole 16-bit samples.  out = "error": the VADIterator raised
\* (lines 63-67).
process_chunk(st, chunk, out) ==
    LET n == BLen(chunk) \div BYTES_PER_SAMPLE
        s1 == [st EXCEPT !.total_samples = @ + n]
    IN  IF out = "error"
        THEN [state |-> s1, end_detected |-> FALSE, speech_resumed |-> FALSE]
        ELSE IF out = "start"
        THEN [state |-> IF s1.pending_endpoint
                        THEN [s1 EXCEPT !.pending_endpoint = FALSE,
                                        !.last_end_sample = NoSample,
                                        !.triggered = TRUE]
                        ELSE [s1 EXCEPT !.triggered = TRUE],
              end_detected |-> FALSE,
              speech_resumed |-> s1.pending_endpoint]
        ELSE IF out = "end"
        THEN [state |-> [s1 EXCEPT !.pending_endpoint = TRUE,
                                   !.last_end_sample = s1.total_samples,
                                   !.triggered = FALSE],
              end_detected |-> TRUE, speech_resumed |-> FALSE]
        ELSE [state |-> s1, end_detected |-> FALSE, speech_resumed |-> FALSE]

\* ------------------------------------------------------------------ state
VARIABLES
    active_connections,     \* ConnectionManager: session id -> set of connections
    audio_buffers,          \* session id -> AudioBuffer
    streaming_vad_states,   \* session id -> StreamingVADState
    processing_started,     \* session id -> "absent" | "false" | "true"
    endpoint_tasks,         \* session id -> timer task (0: no entry)
    sessions,               \* SessionManager.sessions: session id -> Session
    next_turn,              \* next fresh turn id (Turn.turn_id is a uuid)
    vad_model,              \* streaming_vad._vad_model has been loaded
    conn_state,             \* connection -> "closed" | "open" | "broken"
    conn_sid,               \* connection -> session id of its query string
    conn_pc,                \* connection -> "receive" | "trigger"
    conn_local,             \* locals of a handler inside _trigger_processing_once
    timers,                 \* the confirmation timer tasks
    tasks,                  \* the _process_audio tasks that have not finished
    trig,                   \* history: the trigger the last step committed or ended
    cap,                    \* history: what the current capture has received
    invocations,            \* history: pipeline tasks started per turn
    bc,                     \* one send_event call followed send by send
    pf,                     \* one get_audio_data_up_to_samples call
    calls,                  \* process_session_audio calls that have not returned
    rlast,                  \* history: what the last step of the runner did
    reg,                    \* SessionManager.sessions of the registry model
    vd,                     \* one StreamingVADState fed frame by frame
    bq,                     \* send_event calls in flight and what each socket got
    evicted                 \* history: what the last create_session removed

vars == <<active_connections, audio_buffers, streaming_vad_states,
          processing_started, endpoint_tasks, sessions, next_turn, vad_model,
          conn_state, conn_sid, conn_pc, conn_local, timers, tasks,
          trig, cap, invocations, bc, pf, calls, rlast, reg, vd, bq,
          evicted>>

managerVars == <<active_connections, audio_buffers, streaming_vad_states,
                 processing_started, endpoint_tasks>>
connVars == <<conn_state, conn_sid, conn_pc, conn_local>>
keptVars == <<cap, invocations>>
sideVars == <<calls, rlast, reg, vd, bq, evicted>>
auxVars == <<bc, pf, sideVars>>

NewCap == [started |-> FALSE, n |-> 0, heard |-> <<>>, resumed |-> FALSE,
           released |-> FALSE, cancelled |-> FALSE, errored |-> FALSE,
           again |-> FALSE]
NoTrig == [source |-> "none", turn |-> NoTurn, audio |-> Absent,
           config |-> Absent, cut |-> 0, cap |-> NewCap, stale |-> FALSE,
           old |-> FALSE, had_timer |-> FALSE, st |-> "none", events |-> <<>>, outcome |-> "none",
           prev_turn |-> NoTurn]
NoBroadcast == [pc |-> "idle", sid |-> "s1", start |-> {}, todo |-> {},
                size |-> 0, disconnected |-> {}, received |-> {},
                left |-> {}, detached |-> FALSE]
NoPrefix == [buf |-> [chunks |-> <<>>, config |-> "{}", total_bytes |-> 0],
             n |-> 0, out |-> Absent]
NoLocal == [rec |-> NoTrig, bsize |-> 0, bfailed |-> {}, dirty |-> FALSE]
FreeTimer == [st |-> "free", sid |-> "s1", stale |-> FALSE, old |-> FALSE,
              over |-> Absent, cfg |-> Absent, cut |-> 0]

\* a timer task just created: asleep for the confirmation window
NewTimer(sid) == [FreeTimer EXCEPT !.st = "sleeping", !.sid = sid]
NoRun == [kind |-> "none", ok |-> FALSE, events |-> <<>>, turn |-> NoTurn,
          tts |-> "pending", spoke |-> FALSE]

TurnInit ==
    /\ active_connections = [s \in AllSessionIds |-> Absent]
    /\ audio_buffers = [s \in AllSessionIds |-> Absent]
    /\ streaming_vad_states = [s \in AllSessionIds |-> Absent]
    /\ processing_started = [s \in AllSessionIds |-> "absent"]
    /\ endpoint_tasks = [s \in AllSessionIds |-> 0]
    /\ sessions = [s \in AllSessionIds |-> Absent]
    /\ next_turn = 1
    /\ vad_model = FALSE
    /\ conn_state = [c \in Conns |-> "closed"]
    /\ conn_sid = [c \in Conns |-> "s1"]
    /\ conn_pc = [c \in Conns |-> "receive"]
    /\ conn_local = [c \in Conns |-> NoLocal]
    /\ timers = [t \in 1..MaxTimers |-> FreeTimer]
    /\ tasks = <<>>
    /\ trig = NoTrig
    /\ cap = [s \in AllSessionIds |-> NewCap]
    /\ invocations = [t \in 1..MaxTurns |-> 0]

\* create_streaming_vad_state, and no frame processed yet
NoVad == [st |-> NewVadState, before |-> NewVadState, out |-> "none",
          end_detected |-> FALSE, speech_resumed |-> FALSE, n |-> 0]

\* the sockets of a session in the order in which the for loop of send_event
\* visits them: the set does not change, so every call visits them alike
SendOrder == <<"c1", "c2", "c3">>

\* no send_event call in flight, nothing sent
NoSends == [live |-> <<>>, log |-> [c \in Conns |-> <<>>], produced |-> 0]

NoEviction == [by |-> Absent, removed |-> {}, full |-> FALSE]

SideInit ==
    /\ calls = <<>>
    /\ rlast = NoRun
    /\ reg = [r \in RegIds |-> Absent]
    /\ vd = NoVad
    /\ bq = NoSends
    /\ evicted = NoEviction

Init ==
    /\ TurnInit
    /\ bc = NoBroadcast
    /\ pf = NoPrefix
    /\ SideInit

\* ---------------------------------------------- ConnectionManager._lock
\* faulty variant: the lock is still held while the processing state is sent
LockAtSuspension_m(point) == point = "send"

\* Whether self._lock is held at a suspension point of the class: the sends
\* of _trigger_processing_once come after its async with block (lines 240,
\* 242), the timer sleeps before it takes the lock (lines 268, 269) and the
\* pipeline is awaited outside the lock, which the task takes in its
\* finally block only (lines 190, 203).
LockAtSuspension(point) == FALSE

\* no suspended handler or task holds the lock: async with self._lock
\* is entered at once
LockFree ==
    /\ (\E c \in Conns : conn_pc[c] = "trigger") => ~LockAtSuspension("send")
    /\ (\E t \in 1..MaxTimers : timers[t].st = "sleeping")
          => ~LockAtSuspension("sleep")
    /\ (\E i \in 1..Len(tasks) : tasks[i].pc = "finally")
          => ~LockAtSuspension("pipeline")

\* ------------------------------------------------------------- broadcasts
BrokenSet == {c \in Conns : conn_state[c] = "broken"}

Targets(ac, sid) == IF Has(ac[sid]) THEN Get(ac[sid]) ELSE {}

\* send_event run without suspension: every registered connection is sent
\* the event, the connections whose send raised are discarded afterwards
send_event(ac, sid) ==
    IF Has(ac[sid]) THEN [ac EXCEPT ![sid] = Some(Get(@) \ BrokenSet)] ELSE ac

\* ------------------------------------------------------------ timer tasks
\* Task.cancel() of a sleeping task: it ends at once; a finished task that
\* leaves endpoint_tasks is forgotten
\* faulty variant: cancelling one timer task cancels them all
CancelTimer_m(tm, t) == IF t # 0 THEN [u \in DOMAIN tm |-> FreeTimer] ELSE tm

CancelTimer(tm, t) == IF t # 0 THEN [tm EXCEPT ![t] = FreeTimer] ELSE tm

FreeSlot(tm) == CHOOSE t \in 1..MaxTimers :
                    /\ tm[t].st = "free"
                    /\ \A u \in 1..MaxTimers : tm[u].st = "free" => t <= u

\* ------------------------------------------------- ConnectionManager.connect
\* the fields of a Turn the runner writes; the value is the turn id of the
\* call whose audio it was made from, NoTurn for None
NewTurn == [transcript |-> NoTurn, audio_path |-> NoTurn]

\* age: the sweep periods gone by since updated_at was last written;
\* written: the Turn objects of the session, by turn id
NewSession == [status |-> "idle", current_turn |-> NoTurn, turns |-> <<>>,
               age |-> 0, written |-> [t \in 1..MaxTurns |-> NewTurn]]

\* websocket_endpoint up to the receive loop: connect, resume_or_create_session,
\* broadcast_state(IDLE)
Connect(c, sid) ==
    /\ conn_state[c] = "closed"
    /\ LockFree
    /\ active_connections' = send_event(
           [active_connections EXCEPT
              ![sid] = Some(Targets(active_connections, sid) \cup {c})], sid)
    /\ sessions' = IF Has(sessions[sid]) THEN sessions
                   ELSE [sessions EXCEPT ![sid] = Some(NewSession)]
    /\ conn_state' = [conn_state EXCEPT ![c] = "open"]
    /\ conn_sid' = [conn_sid EXCEPT ![c] = sid]
    /\ UNCHANGED <<audio_buffers, streaming_vad_states, processing_started,
                   endpoint_tasks, next_turn, vad_model, auxVars, conn_pc, conn_local, timers,
                   tasks, keptVars>>
    /\ trig' = NoTrig

\* ---------------------------------------------- ConnectionManager.disconnect
\* faulty variant: the pending timer is forgotten without being cancelled
disconnect_m(c, sid) ==
    LET left == Targets(active_connections, sid) \ {c}
    IN  [ac |-> IF ~Has(active_connections[sid]) THEN active_connections
                ELSE IF left = {}
                THEN [active_connections EXCEPT ![sid] = Absent]
                ELSE [active_connections EXCEPT ![sid] = Some(left)],
         bufs |-> [audio_buffers EXCEPT ![sid] = Absent],
         vads |-> [streaming_vad_states EXCEPT ![sid] = Absent],
         started |-> [processing_started EXCEPT ![sid] = "absent"],
         tasks |-> [endpoint_tasks EXCEPT ![sid] = 0],
         tm |-> timers]

disconnect(c, sid) ==
    LET left == Targets(active_connections, sid) \ {c}
    IN  [ac |-> IF ~Has(active_connections[sid]) THEN active_connections
                ELSE IF left = {}
                THEN [active_connections EXCEPT ![sid] = Absent]
                ELSE [active_connections EXCEPT ![sid] = Some(left)],
         bufs |-> [audio_buffers EXCEPT ![sid] = Absent],
         vads |-> [streaming_vad_states EXCEPT ![sid] = Absent],
         started |-> [processing_started EXCEPT ![sid] = "absent"],
         tasks |-> [endpoint_tasks EXCEPT ![sid] = 0],
         tm |-> CancelTimer(timers, endpoint_tasks[sid])]

ApplyDisconnect(c, sid) ==
    LET d == disconnect(c, sid)
    IN  /\ active_connections' = d.ac
        /\ audio_buffers' = d.bufs
        /\ streaming_vad_states' = d.vads
        /\ processing_started' = d.started
        /\ endpoint_tasks' = d.tasks
        /\ timers' = d.tm
        /\ conn_state' = [conn_state EXCEPT ![c] = "closed"]
        /\ conn_pc' = [conn_pc EXCEPT ![c] = "receive"]
        \* a set that left the map is no longer the one a suspended
        \* broadcast iterates
        /\ conn_local' =
             [x \in Conns |->
                IF x = c THEN NoLocal
                ELSE IF conn_pc[x] = "trigger" /\ conn_sid[x] = sid
                        /\ Has(active_connections[sid]) /\ ~Has(d.ac[sid])
                THEN [conn_local[x] EXCEPT !.dirty = TRUE]
                ELSE conn_local[x]]
        /\ cap' = IF Targets(active_connections, sid) \ {c} = {}
                  THEN [cap EXCEPT ![sid].released = TRUE,
                                   ![sid].cancelled =
                                        /\ endpoint_tasks[sid] # 0
                                        /\ timers[endpoint_tasks[sid]].st
                                             = "sleeping"]
                  ELSE cap

\* websocket_endpoint: receive raises WebSocketDisconnect, finally: disconnect
Disconnect(c) ==
    /\ conn_state[c] \in {"open", "broken"}
    /\ LockFree
    /\ conn_pc[c] = "receive"
    /\ ApplyDisconnect(c, conn_sid[c])
    /\ trig' = NoTrig
    /\ UNCHANGED <<sessions, next_turn, vad_model, auxVars, conn_sid, tasks, invocations>>

\* the peer goes away: every later send to this connection raises
Break(c) ==
    /\ conn_state[c] = "open"
    /\ conn_state' = [conn_state EXCEPT ![c] = "broken"]
    /\ UNCHANGED <<managerVars, sessions, next_turn, vad_model, auxVars, conn_sid, conn_pc,
                   conn_local, timers, tasks, keptVars>>
    /\ trig' = NoTrig

\* ------------------------------------------------------ Session.start_turn
start_turn(session, turn_id) ==
    [session EXCEPT !.current_turn = turn_id, !.status = "listening",
                    !.age = 0]

\* --------------------------------------- ConnectionManager.handle_audio_start
\* faulty variant: every audio.start begins a turn
NeedsTurn_m(session) == TRUE

\* "if session.current_turn is None" (line 124)
NeedsTurn(session) == session.current_turn = NoTurn

\* vad_ok: create_streaming_vad_state did not raise.  Once load_silero_vad
\* has succeeded the model is cached in _vad_model and the call cannot fail.
AudioStart(c, config, vad_ok) ==
    /\ conn_state[c] = "open"
    /\ LockFree
    /\ conn_pc[c] = "receive"
    /\ vad_model => vad_ok
    /\ LET sid == conn_sid[c] IN
       /\ active_connections' = send_event(active_connections, sid)
       /\ IF ~Has(sessions[sid])
          THEN /\ vad_ok
               /\ UNCHANGED <<audio_buffers, streaming_vad_states, vad_model,
                              processing_started, sessions, next_turn, cap,
                              timers>>
               /\ trig' = NoTrig
          ELSE LET session == Get(sessions[sid])
                   fresh == NeedsTurn(session)
                   session2 == IF fresh THEN start_turn(session, next_turn)
                               ELSE session
               IN
               /\ fresh => next_turn <= MaxTurns
               /\ sessions' = [sessions EXCEPT ![sid] = Some(session2)]
               /\ next_turn' = IF fresh THEN next_turn + 1 ELSE next_turn
               /\ audio_buffers' = [audio_buffers EXCEPT
                                      ![sid] = Some(NewAudioBuffer(config))]
               /\ processing_started' = [processing_started EXCEPT
                                           ![sid] = "false"]
               /\ streaming_vad_states' =
                      IF vad_ok
                      THEN [streaming_vad_states EXCEPT ![sid] = Some(NewVadState)]
                      ELSE streaming_vad_states
               /\ vad_model' = vad_ok
               \* history: the pending timer, which audio.start leaves
               \* asleep, began its window before this detector state
               /\ timers' = IF vad_ok /\ endpoint_tasks[sid] # 0
                             THEN [timers EXCEPT ![endpoint_tasks[sid]].old = TRUE]
                             ELSE timers
               \* history: the capture begins after a pipeline task of the
               \* session has finished, with no commit or task in flight
               /\ cap' = [cap EXCEPT ![sid] =
                            [NewCap EXCEPT
                               !.started = TRUE,
                               !.again = /\ tasks = <<>>
                                         /\ \A x \in Conns : conn_pc[x] # "trigger"
                                         /\ \E t \in 1..MaxTurns :
                                               invocations[t] > 0]]
               \* history: the turn before and after this audio.start
               /\ trig' = [NoTrig EXCEPT !.st = "audio_start",
                                         !.prev_turn = session.current_turn,
                                         !.turn = session2.current_turn]
    /\ UNCHANGED <<endpoint_tasks, connVars, tasks, invocations, auxVars>>

\* ------------------------------------ _cancel_endpoint_task, _schedule_...
_cancel_endpoint_task(et, tm, sid) ==
    [et |-> [et EXCEPT ![sid] = 0], tm |-> CancelTimer(tm, et[sid])]

\* faulty variant: a new timer is started whether or not one is pending
_schedule_endpoint_trigger_m(et, tm, sid) ==
    IF FALSE
    THEN [et |-> et, tm |-> tm, ok |-> TRUE]
    ELSE LET tm1 == tm
         IN  IF \A t \in 1..MaxTimers : tm1[t].st # "free"
             THEN [et |-> et, tm |-> tm, ok |-> FALSE]
             ELSE [et |-> [et EXCEPT ![sid] = FreeSlot(tm1)],
                   tm |-> [tm1 EXCEPT ![FreeSlot(tm1)] = NewTimer(sid)],
                   ok |-> TRUE]

\* ok is FALSE when the model has no timer task left to create
_schedule_endpoint_trigger(et, tm, sid) ==
    IF et[sid] # 0 /\ tm[et[sid]].st \in {"sleeping", "rechecked"}
    THEN [et |-> et, tm |-> tm, ok |-> TRUE]
    ELSE LET tm1 == CancelTimer(tm, et[sid])
         IN  IF \A t \in 1..MaxTimers : tm1[t].st # "free"
             THEN [et |-> et, tm |-> tm, ok |-> FALSE]
             ELSE [et |-> [et EXCEPT ![sid] = FreeSlot(tm1)],
                   tm |-> [tm1 EXCEPT ![FreeSlot(tm1)] = NewTimer(sid)],
                   ok |-> TRUE]

\* --------------------------------------- ConnectionManager.handle_audio_chunk
\* faulty variant: chunks are taken whatever the guard says
LateChunk_m(started, sid) == FALSE

\* "if self.processing_started.get(session_id): return" (lines 152-154)
LateChunk(started, sid) == started[sid] = "true"

AudioChunk(c, chunk, out) ==
    /\ conn_state[c] = "open"
    /\ LockFree
    /\ conn_pc[c] = "receive"
    /\ LET sid == conn_sid[c] IN
       IF LateChunk(processing_started, sid)
       THEN /\ out = "none"
            /\ chunk = Chunk(1)
            /\ UNCHANGED <<audio_buffers, streaming_vad_states, endpoint_tasks,
                           timers, cap>>
       ELSE LET buf == IF Has(audio_buffers[sid]) THEN Get(audio_buffers[sid])
                       ELSE NewAudioBuffer(EmptyConfig)
                hasVad == Has(streaming_vad_states[sid])
                r == IF hasVad
                     THEN process_chunk(Get(streaming_vad_states[sid]), chunk, out)
                     ELSE [state |-> NewVadState, end_detected |-> FALSE,
                           speech_resumed |-> FALSE]
                \* history: the pending timer saw speech resume
                tm0 == IF r.speech_resumed /\ endpoint_tasks[sid] # 0
                       THEN [timers EXCEPT ![endpoint_tasks[sid]].stale = TRUE]
                       ELSE timers
                e1 == IF r.speech_resumed
                      THEN _cancel_endpoint_task(endpoint_tasks, tm0, sid)
                      ELSE [et |-> endpoint_tasks, tm |-> tm0]
                e2 == IF r.end_detected
                      THEN _schedule_endpoint_trigger(e1.et, e1.tm, sid)
                      ELSE [et |-> e1.et, tm |-> e1.tm, ok |-> TRUE]
            IN  /\ cap[sid].n < MaxChunks
                /\ chunk = Chunk(cap[sid].n + 1)
                /\ IF hasVad
                   THEN out \in VadOutputs(Get(streaming_vad_states[sid]))
                   ELSE out = "none"
                /\ e2.ok
                /\ audio_buffers' = [audio_buffers EXCEPT
                                       ![sid] = Some(add_chunk(buf, chunk))]
                /\ streaming_vad_states' =
                       IF hasVad
                       THEN [streaming_vad_states EXCEPT ![sid] = Some(r.state)]
                       ELSE streaming_vad_states
                /\ endpoint_tasks' = e2.et
                /\ timers' = e2.tm
                /\ cap' = [cap EXCEPT
                             ![sid].n = @ + 1,
                             ![sid].heard = BCat(@, chunk),
                             ![sid].resumed = @ \/ r.speech_resumed,
                             ![sid].errored = @ \/ (out = "error")]
    /\ UNCHANGED <<active_connections, processing_started, sessions, next_turn, vad_model, auxVars,
                   connVars, tasks, invocations>>
    \* history: the frame of this step and what the detector made of it
    /\ trig' = [NoTrig EXCEPT
                  !.st = "chunk", !.outcome = out,
                  \* history: a timer of the session was pending before it
                  !.had_timer =
                      /\ ~LateChunk(processing_started, conn_sid[c])
                      /\ endpoint_tasks[conn_sid[c]] # 0
                      /\ timers[endpoint_tasks[conn_sid[c]]].st = "sleeping"]

\* ------------------------------------------------- _trigger_processing_once
CurrentTurn(sid) ==
    IF Has(sessions[sid]) THEN Get(sessions[sid]).current_turn ELSE NoTurn

\* faulty variant: the commit forgets the pending timer without cancelling it
TriggerCommit_m(sid, source, audio_override, config_override, self, cut) ==
    LET fill == (~Has(audio_override) \/ ~Has(config_override))
                /\ Has(audio_buffers[sid])
        audio_data == IF ~Has(audio_override) /\ fill
                      THEN Some(get_audio_data(Get(audio_buffers[sid])))
                      ELSE audio_override
        audio_config == IF ~Has(config_override) /\ fill
                        THEN Some(Get(audio_buffers[sid]).config)
                        ELSE config_override
        t == endpoint_tasks[sid]
    IN  [started |-> [processing_started EXCEPT ![sid] = "true"],
         vads |-> [streaming_vad_states EXCEPT ![sid] = Absent],
         tasks |-> [endpoint_tasks EXCEPT ![sid] = 0],
         tm |-> timers,
         must_cancel |-> t # 0 /\ t = self,
         rec |-> [source |-> source, turn |-> CurrentTurn(sid),
                  audio |-> audio_data, config |-> audio_config,
                  cut |-> cut, cap |-> cap[sid],
                  stale |-> IF self = 0 THEN FALSE ELSE timers[self].stale,
                  old |-> IF self = 0 THEN FALSE ELSE timers[self].old,
                  had_timer |-> t # 0 /\ t # self /\ timers[t].st = "sleeping",
                  st |-> "bcast"]]

\* the critical section (lines 216-240) run by a handler (self = 0) or by the
\* timer task self: what it leaves behind
TriggerCommit(sid, source, audio_override, config_override, self, cut) ==
    LET fill == (~Has(audio_override) \/ ~Has(config_override))
                /\ Has(audio_buffers[sid])
        audio_data == IF ~Has(audio_override) /\ fill
                      THEN Some(get_audio_data(Get(audio_buffers[sid])))
                      ELSE audio_override
        audio_config == IF ~Has(config_override) /\ fill
                        THEN Some(Get(audio_buffers[sid]).config)
                        ELSE config_override
        t == endpoint_tasks[sid]
    IN  [started |-> [processing_started EXCEPT ![sid] = "true"],
         vads |-> [streaming_vad_states EXCEPT ![sid] = Absent],
         tasks |-> [endpoint_tasks EXCEPT ![sid] = 0],
         tm |-> IF t = self THEN timers ELSE CancelTimer(timers, t),
         must_cancel |-> t # 0 /\ t = self,
         rec |-> [source |-> source, turn |-> CurrentTurn(sid),
                  audio |-> audio_data, config |-> audio_config,
                  cut |-> cut, cap |-> cap[sid],
                  stale |-> IF self = 0 THEN FALSE ELSE timers[self].stale,
                  old |-> IF self = 0 THEN FALSE ELSE timers[self].old,
                  \* history: another task's timer was pending at the commit
                  had_timer |-> t # 0 /\ t # self /\ timers[t].st = "sleeping",
                  st |-> "bcast"]]

Truthy(audio) == Has(audio) /\ Get(audio) # <<>>

\* asyncio.create_task(self._process_audio(...)) after broadcast_state(PROCESSING)
NewTask(sid) == [sid |-> sid, pc |-> "start"]

CountUp(inv, turn) ==
    IF turn = NoTurn THEN inv
    ELSE [inv EXCEPT ![turn] = IF @ < CountCap THEN @ + 1 ELSE @]

\* handle_audio_end up to the first suspension in broadcast_state(PROCESSING)
AudioEnd(c) ==
    /\ conn_state[c] = "open"
    /\ LockFree
    /\ conn_pc[c] = "receive"
    /\ LET sid == conn_sid[c]
           k == TriggerCommit(sid, "audio_end", Absent, Absent, 0, 0)
       IN  IF processing_started[sid] = "true"
           THEN /\ trig' = NoTrig
                /\ UNCHANGED <<processing_started, streaming_vad_states,
                               endpoint_tasks, timers, cap, conn_pc, conn_local>>
           ELSE /\ Truthy(k.rec.audio) => Len(tasks) < MaxTasks
                /\ processing_started' = k.started
                /\ streaming_vad_states' = k.vads
                /\ endpoint_tasks' = k.tasks
                /\ timers' = k.tm
                /\ trig' = k.rec
                /\ cap' = [cap EXCEPT ![sid] = NewCap]
                /\ conn_pc' = [conn_pc EXCEPT ![c] = "trigger"]
                /\ conn_local' = [conn_local EXCEPT ![c] =
                      [rec |-> k.rec,
                       bsize |-> Cardinality(Targets(active_connections, sid)),
                       bfailed |-> Targets(active_connections, sid) \cap BrokenSet,
                       dirty |-> FALSE]]
    /\ UNCHANGED <<active_connections, audio_buffers, sessions, next_turn, vad_model, auxVars,
                   conn_state, conn_sid, tasks, invocations>>

\* The rest of _trigger_processing_once in a handler (lines 242-252).  The
\* send loop of send_event iterates the live set: when the set changed size
\* while a send was suspended the loop raises RuntimeError, which leaves
\* handle_audio_end and ends the connection (websocket_endpoint, lines
\* 454-458).
FinishTrigger(c) ==
    /\ conn_pc[c] = "trigger"
    /\ LET sid == conn_sid[c]
           loc == conn_local[c]
       IN
       IF loc.dirty \/ Cardinality(Targets(active_connections, sid)) # loc.bsize
       THEN /\ trig' = [loc.rec EXCEPT !.st = "raised"]
            /\ ApplyDisconnect(c, sid)
            /\ UNCHANGED <<tasks, invocations>>
       ELSE LET ac1 == [active_connections EXCEPT
                          ![sid] = Some(Get(@) \ loc.bfailed)]
            IN  /\ conn_pc' = [conn_pc EXCEPT ![c] = "receive"]
                /\ conn_local' = [conn_local EXCEPT ![c] = NoLocal]
                /\ IF Truthy(loc.rec.audio)
                   THEN /\ active_connections' = ac1
                        /\ tasks' = Append(tasks, NewTask(sid))
                        /\ invocations' = CountUp(invocations, loc.rec.turn)
                        /\ trig' = [loc.rec EXCEPT !.st = "task"]
                   ELSE /\ active_connections' = send_event(ac1, sid)
                        /\ trig' = [loc.rec EXCEPT !.st = "no_audio"]
                        /\ UNCHANGED <<tasks, invocations>>
                /\ UNCHANGED <<audio_buffers, streaming_vad_states,
                               processing_started, endpoint_tasks, timers,
                               cap, conn_state>>
    /\ UNCHANGED <<sessions, next_turn, vad_model, auxVars, conn_sid>>


\* --------------------- _schedule_endpoint_trigger._endpoint_wait_and_trigger
PostRollSamples == (AUDIO_SAMPLE_RATE * ENDPOINT_POST_ROLL_MS) \div 1000

\* what is left of a timer task that returned
Returned(tm, et, t) ==
    IF et[timers[t].sid] = t THEN [tm EXCEPT ![t].st = "done"]
    ELSE [tm EXCEPT ![t] = FreeTimer]

\* faulty variant: the cut keeps no post-roll
MaxSamples_m(end_sample) == end_sample

\* the sample position up to which a confirmed endpoint keeps audio
\* (line 279)
MaxSamples(end_sample) == end_sample + PostRollSamples

\* faulty variant: the task is suspended between the two lock blocks
YieldsBeforeCommit_m == TRUE

\* Between the end of the timer's lock block (line 286) and the lock block
\* of _trigger_processing_once (line 216) the task is never suspended: the
\* call awaits a coroutine, which runs at once, and the lock is free, so
\* its acquire returns without yielding.
YieldsBeforeCommit == FALSE

\* faulty variant: the re-check does not look at pending_endpoint
TimerMayCommit_m(started, vads, sid) ==
    started[sid] # "true" /\ Has(vads[sid])

\* the re-check of the timer under the lock (lines 270-274)
TimerMayCommit(started, vads, sid) ==
    /\ started[sid] # "true"
    /\ Has(vads[sid])
    /\ Get(vads[sid]).pending_endpoint

\* The sleep is over.  The re-check, the commit and everything up to the
\* first send that suspends run without interruption.  The commit cancels
\* endpoint_tasks[sid], the running task itself: the CancelledError is
\* delivered at the first suspension, so the task either never suspends
\* (susp = "never") and runs to its end, or is cut in the PROCESSING
\* broadcast or, on the no-audio path, in the IDLE broadcast.
TimerFire(t, susp) ==
    /\ timers[t].st \in {"sleeping", "rechecked"}
    /\ LockFree
    /\ LET sid == timers[t].sid
           vad == streaming_vad_states[sid]
           rechecked == timers[t].st = "rechecked"
           \* the timer's own re-check, or the guard test of
           \* _trigger_processing_once for a task that resumes after it
           passes == IF rechecked THEN processing_started[sid] # "true"
                     ELSE TimerMayCommit(processing_started,
                                         streaming_vad_states, sid)
           end_sample == IF Get(vad).last_end_sample = NoSample THEN 0
                         ELSE Get(vad).last_end_sample
           max_samples == IF rechecked THEN timers[t].cut
                          ELSE MaxSamples(end_sample)
           audio_override ==
               IF rechecked THEN timers[t].over
               ELSE IF Has(audio_buffers[sid])
               THEN Some(get_audio_data_up_to_samples(
                             Get(audio_buffers[sid]), max_samples))
               ELSE Absent
           audio_config ==
               IF rechecked THEN timers[t].cfg
               ELSE IF Has(audio_buffers[sid])
               THEN Some(Get(audio_buffers[sid]).config)
               ELSE Absent
       IN
       IF ~passes
       THEN /\ susp = "never"
            /\ timers' = Returned(timers, endpoint_tasks, t)
            /\ trig' = NoTrig
            /\ UNCHANGED <<managerVars, tasks, cap, invocations>>
       ELSE IF ~rechecked /\ YieldsBeforeCommit
       THEN /\ susp = "never"
            /\ timers' = [timers EXCEPT ![t] =
                            [@ EXCEPT !.st = "rechecked",
                                      !.over = audio_override,
                                      !.cfg = audio_config,
                                      !.cut = max_samples]]
            /\ trig' = NoTrig
            /\ UNCHANGED <<managerVars, tasks, cap, invocations>>
       ELSE LET k == TriggerCommit(sid, "vad_end_confirmed", audio_override,
                                   audio_config, t, max_samples)
                cut == susp # "never"
                runs == ~cut /\ Truthy(k.rec.audio)
            IN  /\ runs => Len(tasks) < MaxTasks
                /\ cut => k.must_cancel /\ Targets(active_connections, sid) # {}
                /\ susp = "idle" => ~Truthy(k.rec.audio)
                /\ processing_started' = k.started
                /\ streaming_vad_states' = k.vads
                /\ endpoint_tasks' = k.tasks
                /\ audio_buffers' = audio_buffers
                /\ timers' = [k.tm EXCEPT ![t] = FreeTimer]
                /\ active_connections' =
                       IF susp = "processing" THEN active_connections
                       ELSE send_event(active_connections, sid)
                /\ tasks' = IF runs
                            THEN Append(tasks, NewTask(sid))
                            ELSE tasks
                /\ invocations' = IF runs THEN CountUp(invocations, k.rec.turn)
                                  ELSE invocations
                /\ trig' = [k.rec EXCEPT !.st =
                              IF susp = "processing" THEN "cancelled"
                              ELSE IF runs THEN "task"
                              ELSE IF susp = "idle" THEN "no_audio_cut"
                              ELSE "no_audio"]
                /\ cap' = [cap EXCEPT ![sid] = NewCap]
    /\ UNCHANGED <<sessions, next_turn, vad_model, auxVars, connVars>>

\* ------------------------------------------ ConnectionManager._process_audio
\* The task starts: process_audio_stream is called with the keyword
\* sample_rate (ws.py:190), which its signature (pipeline_runner.py:253)
\* does not have, so the call raises TypeError before any of its body runs;
\* the except branch broadcasts PROCESSING_ERROR and state idle.  outcome is
\* what the speech capabilities would have returned for this audio.
PipelineOutcomes == {"success", "failure"}

PipelineRun(i, outcome) ==
    /\ i \in 1..Len(tasks)
    /\ tasks[i].pc = "start"
    /\ active_connections' = send_event(active_connections, tasks[i].sid)
    /\ tasks' = [tasks EXCEPT ![i].pc = "finally"]
    /\ UNCHANGED <<audio_buffers, streaming_vad_states, processing_started,
                   endpoint_tasks, sessions, next_turn, vad_model, auxVars, connVars, timers,
                   keptVars>>
    \* history: the events of the turn, from the commit to the task's last
    /\ trig' = [NoTrig EXCEPT
                  !.st = "ran",
                  !.outcome = outcome,
                  !.events = <<"state:processing", "error:PROCESSING_ERROR",
                               "state:idle">>]

RemoveAt(seq, i) == SubSeq(seq, 1, i - 1) \o SubSeq(seq, i + 1, Len(seq))

\* the finally block (lines 201-207)
PipelineFinally(i) ==
    /\ i \in 1..Len(tasks)
    /\ LockFree
    /\ tasks[i].pc = "finally"
    /\ audio_buffers' = [audio_buffers EXCEPT ![tasks[i].sid] = Absent]
    /\ processing_started' = [processing_started EXCEPT ![tasks[i].sid] = "absent"]
    /\ tasks' = RemoveAt(tasks, i)
    /\ UNCHANGED <<active_connections, streaming_vad_states, endpoint_tasks,
                   sessions, next_turn, vad_model, auxVars, connVars, timers, keptVars>>
    /\ trig' = NoTrig

\* ---------------------------------------------------------- specification
Next ==
    \/ \E c \in Speakers \cup Viewers, sid \in SessionIds : Connect(c, sid)
    \/ \E c \in Speakers \cup Viewers : Disconnect(c)
    \/ \E c \in Speakers \cup Viewers : Break(c)
    \/ \E c \in Speakers, config \in Configs, vad_ok \in BOOLEAN :
          AudioStart(c, config, vad_ok)
    \/ \E c \in Speakers, chunk \in {Chunk(n) : n \in 1..MaxChunks}, out \in {"none", "error", "start", "end"} :
          AudioChunk(c, chunk, out)
    \/ \E c \in Speakers : AudioEnd(c)
    \/ \E c \in Speakers : FinishTrigger(c)
    \/ \E t \in 1..MaxTimers, susp \in {"never", "processing", "idle"} :
          TimerFire(t, susp)
    \/ \E i \in 1..MaxTasks, outcome \in PipelineOutcomes : PipelineRun(i, outcome)
    \/ \E i \in 1..MaxTasks : PipelineFinally(i)

Spec == Init /\ [][Next]_vars

\* The endpointing of one capture stream on its own (SpecEndpoint): the
\* session has its speaker only, whose sends do not fail; every handler,
\* timer and pipeline step of Next is there.  A viewer adds nothing to what
\* the manager holds for the session that the speaker's own disconnect and
\* reconnect do not produce.
NextEndpoint ==
    \/ \E c \in Speakers, sid \in SessionIds : Connect(c, sid)
    \/ \E c \in Speakers : Disconnect(c)
    \/ \E c \in Speakers, config \in Configs, vad_ok \in BOOLEAN :
          AudioStart(c, config, vad_ok)
    \/ \E c \in Speakers, chunk \in {Chunk(n) : n \in 1..MaxChunks},
          out \in {"none", "error", "start", "end"} :
          AudioChunk(c, chunk, out)
    \/ \E c \in Speakers : AudioEnd(c)
    \/ \E c \in Speakers : FinishTrigger(c)
    \/ \E t \in 1..MaxTimers, susp \in {"never", "processing", "idle"} :
          TimerFire(t, susp)
    \/ \E i \in 1..MaxTasks, outcome \in PipelineOutcomes : PipelineRun(i, outcome)
    \/ \E i \in 1..MaxTasks : PipelineFinally(i)

SpecEndpoint == Init /\ [][NextEndpoint]_vars

turnVars == <<managerVars, sessions, next_turn, vad_model, connVars, timers,
              tasks, trig, keptVars>>

\* ------------------------------------------- send_event, one send at a time
\* The for loop of send_event (lines 308-314) iterates the live set: every
\* send_text is a suspension point at which connect and disconnect of other
\* handlers run.  The set iterator compares the size of the set with the
\* size it saw when it was created and raises RuntimeError when they differ;
\* after the key was deleted from the map the iterator still holds the old,
\* emptied set.
Visit(b, c) ==
    [b EXCEPT !.todo = @ \ {c},
              !.received = IF conn_state[c] = "broken" THEN @ ELSE @ \cup {c},
              !.disconnected = IF conn_state[c] = "broken" THEN @ \cup {c}
                               ELSE @]

SizeChanged ==
    \/ bc.detached
    \/ Cardinality(Targets(active_connections, bc.sid)) # bc.size

\* ConnectionManager.connect (lines 77-89)
connect(ac, c, sid) == [ac EXCEPT ![sid] = Some(Targets(ac, sid) \cup {c})]

SendRegister(c, sid, seen) ==
    /\ conn_state[c] = "closed"
    /\ active_connections' = connect(active_connections, c, sid)
    /\ conn_state' = [conn_state EXCEPT ![c] = "open"]
    /\ conn_sid' = [conn_sid EXCEPT ![c] = sid]
    \* the new member lies before or behind the iterator's position
    /\ bc' = IF bc.pc = "loop" /\ bc.sid = sid /\ ~bc.detached /\ seen
             THEN [bc EXCEPT !.todo = @ \cup {c}]
             ELSE bc
    /\ bc.pc # "loop" => seen
    /\ UNCHANGED <<audio_buffers, streaming_vad_states, processing_started,
                   endpoint_tasks, sessions, next_turn, vad_model, conn_pc,
                   conn_local, timers, tasks, trig, keptVars, pf, sideVars>>

SendDeregister(c) ==
    /\ conn_state[c] \in {"open", "broken"}
    /\ LET sid == conn_sid[c]
           d == disconnect(c, sid)
       IN  /\ active_connections' = d.ac
           /\ audio_buffers' = d.bufs
           /\ streaming_vad_states' = d.vads
           /\ processing_started' = d.started
           /\ endpoint_tasks' = d.tasks
           /\ timers' = d.tm
           /\ bc' = IF bc.pc = "loop" /\ bc.sid = sid
                    THEN [bc EXCEPT !.todo = @ \ {c},
                                    !.left = @ \cup {c},
                                    !.detached = @ \/ ~Has(d.ac[sid])]
                    ELSE bc
    /\ conn_state' = [conn_state EXCEPT ![c] = "closed"]
    /\ UNCHANGED <<sessions, next_turn, vad_model, conn_sid, conn_pc,
                   conn_local, tasks, trig, keptVars, pf, sideVars>>

\* send_event up to the suspension in its first send_text
BroadcastBegin(sid, c) ==
    /\ bc.pc # "loop"
    /\ LET set == Targets(active_connections, sid)
           b0 == [NoBroadcast EXCEPT !.sid = sid, !.start = set, !.todo = set,
                                     !.size = Cardinality(set)]
       IN  IF set = {}
           THEN /\ c = "c1"
                /\ bc' = [b0 EXCEPT !.pc = "done"]
           ELSE /\ c \in set
                /\ bc' = [Visit(b0, c) EXCEPT !.pc = "loop"]
    /\ UNCHANGED <<turnVars, pf, sideVars>>

\* the send returned or raised; the loop takes the next connection
BroadcastSend(c) ==
    /\ bc.pc = "loop"
    /\ ~SizeChanged
    /\ c \in bc.todo
    /\ bc' = Visit(bc, c)
    /\ UNCHANGED <<turnVars, pf, sideVars>>

\* the loop asks for the next connection of a set that changed size
BroadcastRaise ==
    /\ bc.pc = "loop"
    /\ SizeChanged
    /\ bc' = [bc EXCEPT !.pc = "raised"]
    /\ UNCHANGED <<turnVars, pf, sideVars>>

\* the loop is exhausted: cleanup of the connections whose send raised
BroadcastCleanup ==
    /\ bc.pc = "loop"
    /\ ~SizeChanged
    /\ bc.todo = {}
    /\ active_connections' =
           [active_connections EXCEPT
              ![bc.sid] = Some(Get(@) \ bc.disconnected)]
    /\ bc' = [bc EXCEPT !.pc = "done"]
    /\ UNCHANGED <<audio_buffers, streaming_vad_states, processing_started,
                   endpoint_tasks, sessions, next_turn, vad_model, connVars,
                   timers, tasks, trig, keptVars, pf, sideVars>>

NextSend ==
    \/ \E c \in Conns, sid \in SessionIds, seen \in BOOLEAN :
          SendRegister(c, sid, seen)
    \/ \E c \in Conns : SendDeregister(c)
    \/ \E c \in Conns : Break(c)
    \/ \E sid \in SessionIds, c \in Conns : BroadcastBegin(sid, c)
    \/ \E c \in Conns : BroadcastSend(c)
    \/ BroadcastRaise
    \/ BroadcastCleanup

SpecSend == Init /\ [][NextSend]_vars

\* ------------------------ get_audio_data_up_to_samples on its own inputs
MaxPrefixChunks == 3    \* chunks in the accumulator

PrefixChunks == {Bytes(v, k) : v \in {1, 2}, k \in {0, 30, 50, 100}}
PrefixSamples == {-1, 0, 1, 15, 50, 60, 75, 90, 200}

InitPrefix ==
    /\ TurnInit
    /\ bc = NoBroadcast
    /\ SideInit
    /\ pf \in {[buf |-> b, n |-> n, out |-> Absent] :
                  b \in {NewAudioBuffer(EmptyConfig)}
                        \cup {add_chunk(NewAudioBuffer(EmptyConfig), ch) :
                                 ch \in PrefixChunks},
                  n \in PrefixSamples}

PrefixAddChunk(chunk) ==
    /\ Len(pf.buf.chunks) < MaxPrefixChunks
    /\ pf' = [pf EXCEPT !.buf = add_chunk(@, chunk), !.out = Absent]
    /\ UNCHANGED <<turnVars, bc, sideVars>>

PrefixAsk(max_samples) ==
    /\ pf' = [pf EXCEPT
                !.n = max_samples,
                !.out = Some(get_audio_data_up_to_samples(pf.buf, max_samples))]
    /\ UNCHANGED <<turnVars, bc, sideVars>>

NextPrefix ==
    \/ \E chunk \in PrefixChunks : PrefixAddChunk(chunk)
    \/ \E max_samples \in PrefixSamples : PrefixAsk(max_samples)

SpecPrefix == InitPrefix /\ [][NextPrefix]_vars

\* the bytes a run-length encoded string stands for, one element per byte
RECURSIVE Expand(_)
Expand(b) ==
    IF b = <<>> THEN <<>>
    ELSE [i \in 1..b[1][2] |-> b[1][1]] \o Expand(Tail(b))

\* b"".join(chunks), byte by byte
RECURSIVE FlatChunks(_)
FlatChunks(chunks) ==
    IF chunks = <<>> THEN <<>>
    ELSE Expand(chunks[1]) \o FlatChunks(Tail(chunks))

\* ------------------------------------- PipelineRunner.process_session_audio
\* SpecRunner follows the Session object of one session through audio.start,
\* POST /session/stop and the background calls of process_session_audio that
\* /session/stop queues.  Every await of the runner is a suspension point; the
\* awaits between which the runner neither reads nor writes the session are
\* taken together.  A broadcast is recorded in the call's events when it is
\* issued.
MaxRuns == 2        \* process_session_audio calls alive at a time

PipelineResults == {"error", "raise", "ok"}

\* tts and spoke are history: what _generate_audio_placeholder returned to
\* the call ("file" or "none"), and whether the call assigned
\* SessionStatus.SPEAKING
NewRun(sid) == [sid |-> sid, pc |-> "queued", turn |-> NoTurn, events |-> <<>>,
                tts |-> "pending", spoke |-> FALSE]

\* faulty variant: the turn is appended and stays current
complete_turn_m(session) ==
    [session EXCEPT
       !.turns = IF session.current_turn # NoTurn
                 THEN Append(@, session.current_turn) ELSE @,
       !.status = "idle",
       !.age = 0]

\* Session.complete_turn
complete_turn(session) ==
    [session EXCEPT
       !.turns = IF session.current_turn # NoTurn
                 THEN Append(@, session.current_turn) ELSE @,
       !.current_turn = NoTurn,
       !.status = "idle",
       !.age = 0]

\* faulty variant: the failure path completes the turn before it reports
set_error_m(session) == [complete_turn(session) EXCEPT !.status = "error"]

\* "session.status = SessionStatus.ERROR" (lines 96 and 190)
set_error(session) == [session EXCEPT !.status = "error"]

RunReturned(rn, ok) == [kind |-> "returned", ok |-> ok,
                        events |-> rn.events, turn |-> rn.turn,
                        tts |-> rn.tts, spoke |-> rn.spoke]

IsErrorEvent(e) == e \in {"error:PIPELINE_ERROR", "error:PROCESSING_ERROR"}

\* POST /session/start
SessionStart(sid) ==
    /\ ~Has(sessions[sid])
    /\ sessions' = [sessions EXCEPT ![sid] = Some(NewSession)]
    /\ UNCHANGED <<managerVars, next_turn, vad_model, connVars, timers, tasks,
                   trig, keptVars, bc, pf, calls, rlast, reg, vd, bq, evicted>>

\* POST /session/stop
SessionStop(sid) ==
    /\ Has(sessions[sid])
    /\ Len(calls) < MaxRuns
    /\ sessions' = [sessions EXCEPT ![sid] = Some([Get(@) EXCEPT
                                                     !.status = "processing"])]
    /\ calls' = Append(calls, NewRun(sid))
    /\ UNCHANGED <<managerVars, next_turn, vad_model, connVars, timers, tasks,
                   trig, keptVars, bc, pf, rlast, reg, vd, bq, evicted>>

RunnerFrame == <<managerVars, next_turn, vad_model, connVars, timers, tasks,
                 trig, keptVars, bc, pf, reg, vd, bq, evicted>>

\* lines 49-69: the checks, then broadcast_state(PROCESSING)
RunnerBegin(i) ==
    /\ i \in 1..Len(calls)
    /\ calls[i].pc = "queued"
    /\ LET rn == calls[i]
           so == sessions[rn.sid]
       IN  IF ~Has(so) \/ Get(so).current_turn = NoTurn
           THEN /\ calls' = RemoveAt(calls, i)
                /\ rlast' = RunReturned(rn, FALSE)
           ELSE /\ calls' = [calls EXCEPT
                              ![i].pc = "sent_processing",
                              ![i].turn = Get(so).current_turn,
                              ![i].events = <<"state:processing">>]
                /\ UNCHANGED rlast
    /\ UNCHANGED <<sessions, RunnerFrame>>

\* lines 70-82: status PROCESSING, then the pipeline runs in a thread
RunnerProcessing(i) ==
    /\ i \in 1..Len(calls)
    /\ calls[i].pc = "sent_processing"
    /\ sessions' = [sessions EXCEPT ![calls[i].sid] =
                       Some([Get(@) EXCEPT !.status = "processing"])]
    /\ calls' = [calls EXCEPT ![i].pc = "pipeline"]
    /\ UNCHANGED <<rlast, RunnerFrame>>

\* lines 84-136: the result of the pipeline.  "session.current_turn.transcript
\* = ..." raises AttributeError when another call has completed the turn.
RunnerPipeline(i, result) ==
    /\ i \in 1..Len(calls)
    /\ calls[i].pc = "pipeline"
    /\ LET rn == calls[i]
           session == Get(sessions[rn.sid])
       IN  calls' =
             IF result = "error"
             THEN [calls EXCEPT ![i].pc = "sent_error",
                               ![i].events = Append(@, "error:PIPELINE_ERROR")]
             ELSE IF result = "raise" \/ session.current_turn = NoTurn
             THEN [calls EXCEPT ![i].pc = "sent_error",
                               ![i].events = Append(@, "error:PROCESSING_ERROR")]
             ELSE [calls EXCEPT ![i].pc = "tts",
                               ![i].events = @ \o <<"transcript", "replyText">>]
    \* lines 111-113: the result is stored in whatever turn is current now
    /\ LET rn == calls[i]
           session == Get(sessions[rn.sid])
       IN  sessions' =
             IF result = "ok" /\ session.current_turn # NoTurn
             THEN [sessions EXCEPT ![rn.sid] = Some([session EXCEPT
                      !.written[session.current_turn].transcript = rn.turn])]
             ELSE sessions
    /\ UNCHANGED <<rlast, RunnerFrame>>

\* faulty variant: the speaking branch is taken without a speech file
HasArtifact_m(audio_path) == TRUE

\* "if audio_path:" (line 139)
HasArtifact(audio_path) == audio_path

\* lines 138-163 and 166: the speech file, audioReady, state speaking; without
\* a file the turn is completed at once
RunnerTts(i, audio_path) ==
    /\ i \in 1..Len(calls)
    /\ calls[i].pc = "tts"
    /\ LET rn == calls[i]
           session == Get(sessions[rn.sid])
           made == IF audio_path THEN "file" ELSE "none"
       IN  IF HasArtifact(audio_path)
           THEN /\ calls' =
                     IF session.current_turn = NoTurn
                     THEN [calls EXCEPT
                             ![i].pc = "sent_error",
                             ![i].tts = made,
                             ![i].events = Append(@, "error:PROCESSING_ERROR")]
                     ELSE [calls EXCEPT
                             ![i].pc = "sent_speaking",
                             ![i].tts = made,
                             ![i].events = @ \o <<"audioReady", "state:speaking">>]
                \* line 140, the file is named after the call's turn_id
                /\ sessions' =
                     IF session.current_turn = NoTurn THEN sessions
                     ELSE [sessions EXCEPT ![rn.sid] = Some([session EXCEPT
                             !.written[session.current_turn].audio_path = rn.turn])]
           ELSE /\ calls' = [calls EXCEPT ![i].pc = "sent_idle",
                                        ![i].tts = made,
                                        ![i].events = Append(@, "state:idle")]
                /\ sessions' = [sessions EXCEPT
                                  ![rn.sid] = Some(complete_turn(session))]
    /\ UNCHANGED <<rlast, RunnerFrame>>

\* lines 163-170: status SPEAKING, complete_turn, sleep, broadcast_state(IDLE)
RunnerSpeaking(i) ==
    /\ i \in 1..Len(calls)
    /\ calls[i].pc = "sent_speaking"
    /\ sessions' = [sessions EXCEPT ![calls[i].sid] =
                       Some(complete_turn([Get(@) EXCEPT !.status = "speaking"]))]
    /\ calls' = [calls EXCEPT ![i].pc = "sent_idle",
                            ![i].spoke = TRUE,
                            ![i].events = Append(@, "state:idle")]
    /\ UNCHANGED <<rlast, RunnerFrame>>

\* lines 175-178: status IDLE, return True
RunnerIdle(i) ==
    /\ i \in 1..Len(calls)
    /\ calls[i].pc = "sent_idle"
    /\ sessions' = [sessions EXCEPT ![calls[i].sid] =
                       Some([Get(@) EXCEPT !.status = "idle"])]
    /\ calls' = RemoveAt(calls, i)
    /\ rlast' = RunReturned(calls[i], TRUE)
    /\ UNCHANGED RunnerFrame

\* lines 96-97 and 190-191: status ERROR, return False
RunnerError(i) ==
    /\ i \in 1..Len(calls)
    /\ calls[i].pc = "sent_error"
    /\ sessions' = [sessions EXCEPT ![calls[i].sid] = Some(set_error(Get(@)))]
    /\ calls' = RemoveAt(calls, i)
    /\ rlast' = RunReturned(calls[i], FALSE)
    /\ UNCHANGED RunnerFrame

RunnerSteps ==
    \/ \E i \in 1..MaxRuns : RunnerBegin(i)
    \/ \E i \in 1..MaxRuns : RunnerProcessing(i)
    \/ \E i \in 1..MaxRuns, result \in PipelineResults : RunnerPipeline(i, result)
    \/ \E i \in 1..MaxRuns, audio_path \in BOOLEAN : RunnerTts(i, audio_path)
    \/ \E i \in 1..MaxRuns : RunnerSpeaking(i)
    \/ \E i \in 1..MaxRuns : RunnerIdle(i)
    \/ \E i \in 1..MaxRuns : RunnerError(i)

NextRunner ==
    \/ \E sid \in SessionIds : SessionStart(sid)
    \/ \E c \in Speakers, sid \in SessionIds : Connect(c, sid)
    \/ \E c \in Speakers, config \in Configs, vad_ok \in BOOLEAN :
          AudioStart(c, config, vad_ok)
    \/ \E sid \in SessionIds : SessionStop(sid)
    \/ RunnerSteps

SpecRunner == Init /\ [][NextRunner]_vars

\* the runner is a task of the event loop: a call that can take a step takes it
SpecRunnerFair == SpecRunner /\ WF_vars(RunnerSteps)

\* ------------------------------------------------- SessionManager registry
\* SpecRegistry follows SessionManager.sessions while clients connect with
\* the ids of RegIds, begin and end turns, time passes and the cleanup task
\* sweeps.  Time is counted in periods of the cleanup task; Session.age is
\* the number of periods since updated_at was written, counted up to MaxAge.
MAX_CONCURRENT_SESSIONS == 2    \* settings.MAX_CONCURRENT_SESSIONS, scaled
MaxAge == 6         \* periods a session's age is counted up to
MaxHistory == 1     \* turns a registry session completes

SESSION_TIMEOUT_SECONDS == 300
SWEEP_PERIOD_SECONDS == 60
RegTurn == 1        \* the turn of a registry session; its id is not compared

Held(r) == {id \in RegIds : Has(r[id])}

\* "now - session.updated_at > timeout" (line 104)
Expired(session) == session.age * SWEEP_PERIOD_SECONDS > SESSION_TIMEOUT_SECONDS

\* faulty variant: any idle session may be picked
OldestIdle_m(r) == {id \in Held(r) : Get(r[id]).status = "idle"}

\* the sessions _remove_oldest_idle_session may pick: idle, with the least
\* updated_at; among equals min() takes the first in dict order, which the
\* model leaves open
OldestIdle(r) ==
    {id \in Held(r) :
        /\ Get(r[id]).status = "idle"
        /\ \A o \in Held(r) :
              Get(r[o]).status = "idle" => Get(r[o]).age <= Get(r[id]).age}

\* SessionManager.create_session with victim the session the eviction picks
create_session(r, sid, victim) ==
    LET r1 == IF Cardinality(Held(r)) >= MAX_CONCURRENT_SESSIONS
                 /\ OldestIdle(r) # {}
              THEN [r EXCEPT ![victim] = Absent]
              ELSE r
    IN  [r1 EXCEPT ![sid] = Some(NewSession)]

RegFrame == <<turnVars, bc, pf, calls, rlast, vd, bq>>

\* websocket_endpoint or POST /session/start: resume_or_create_session
RegResume(sid, victim) ==
    /\ ~Has(reg[sid])
    /\ IF Cardinality(Held(reg)) >= MAX_CONCURRENT_SESSIONS /\ OldestIdle(reg) # {}
       THEN victim \in OldestIdle(reg)
       ELSE victim = sid
    /\ reg' = create_session(reg, sid, victim)
    \* history: the ids this call took out of the registry
    /\ evicted' = [by |-> Some(sid),
                   removed |-> {id \in Held(reg) : ~Has(reg'[id])},
                   full |-> Cardinality(Held(reg)) >= MAX_CONCURRENT_SESSIONS]
    /\ UNCHANGED RegFrame

\* handle_audio_start, lines 118-127: the session begins a turn
RegAudioStart(sid) ==
    /\ Has(reg[sid])
    /\ NeedsTurn(Get(reg[sid]))
    /\ Len(Get(reg[sid]).turns) < MaxHistory
    /\ reg' = [reg EXCEPT ![sid] = Some(start_turn(Get(@), RegTurn))]
    /\ UNCHANGED <<RegFrame, evicted>>

\* process_session_audio, line 166 to 175: the turn ends well
RegCompleteTurn(sid) ==
    /\ Has(reg[sid])
    /\ Get(reg[sid]).current_turn # NoTurn
    /\ reg' = [reg EXCEPT ![sid] = Some(complete_turn(Get(@)))]
    /\ UNCHANGED <<RegFrame, evicted>>

\* asyncio.sleep(60) of _cleanup_sessions: one period goes by
RegTick ==
    /\ \E id \in Held(reg) : Get(reg[id]).age < MaxAge
    /\ reg' = [id \in RegIds |->
                 IF Has(reg[id]) /\ Get(reg[id]).age < MaxAge
                 THEN Some([Get(reg[id]) EXCEPT !.age = @ + 1])
                 ELSE reg[id]]
    /\ UNCHANGED <<RegFrame, evicted>>

\* one pass of _cleanup_sessions (lines 98-109)
RegSweep ==
    /\ \E id \in Held(reg) : Expired(Get(reg[id]))
    /\ reg' = [id \in RegIds |->
                 IF Has(reg[id]) /\ Expired(Get(reg[id])) THEN Absent
                 ELSE reg[id]]
    /\ UNCHANGED <<RegFrame, evicted>>

NextRegistry ==
    \/ \E sid \in RegIds, victim \in RegIds : RegResume(sid, victim)
    \/ \E sid \in RegIds : RegAudioStart(sid)
    \/ \E sid \in RegIds : RegCompleteTurn(sid)
    \/ RegTick
    \/ RegSweep

SpecRegistry == Init /\ [][NextRegistry]_vars

\* ------------------------------------------------------------ two sessions
\* SpecIso runs two sessions side by side, each with one connection that
\* streams audio.  The first session goes through all of its handlers, its
\* timer and its pipeline task; the second connects, starts captures, sends
\* chunks up to a detected endpoint (its timer stays pending) and disconnects.
MaxIsoChunks == 2   \* chunks of a capture while two sessions run

IsoConns == {"c1", "c3"}
IsoSession(c) == IF c = "c1" THEN "s1" ELSE "s2"
IsoOutputs == {"start", "end"}

NextIso ==
    \/ \E c \in IsoConns : Connect(c, IsoSession(c))
    \/ \E c \in IsoConns : Disconnect(c)
    \/ \E c \in IsoConns, config \in Configs : AudioStart(c, config, TRUE)
    \/ \E c \in IsoConns, chunk \in {Chunk(n) : n \in 1..MaxChunks},
          out \in IsoOutputs :
          /\ cap[IsoSession(c)].n < MaxIsoChunks
          /\ AudioChunk(c, chunk, out)
    \/ \E c \in {"c1"} : AudioEnd(c)
    \/ \E c \in {"c1"} : FinishTrigger(c)
    \/ \E t \in 1..MaxTimers : timers[t].sid = "s1" /\ TimerFire(t, "never")
    \/ \E i \in 1..MaxTasks, outcome \in PipelineOutcomes : PipelineRun(i, outcome)
    \/ \E i \in 1..MaxTasks : PipelineFinally(i)

SpecIso == Init /\ [][NextIso]_vars

\* what the connection manager holds for one session
SessView(s) ==
    <<active_connections[s], audio_buffers[s], streaming_vad_states[s],
      processing_started[s], endpoint_tasks[s],
      {<<t, timers[t]>> : t \in {u \in 1..MaxTimers :
                                   timers[u].st # "free" /\ timers[u].sid = s}}>>

\* ================================================================== claims
\* ------------------------------------------- send_event calls side by side
\* Several coroutines broadcast to one session (SpecOrder): the handler of
\* each connection and the pipeline task each call send_event, and every
\* send_text is a suspension point at which another call may start or go
\* on.  Events are numbered in the order in which their send_event calls
\* begin; bq.log[c] is what send_text has written to socket c, in order.
\* The connections stay attached and no send fails.
MaxEvents == 3      \* events produced per run
MaxLive == 2        \* send_event calls in flight at a time

\* await connection.send_text(event_json) (line 311): the frame follows
\* what the socket was sent before
Written(log, c, ev) == [log EXCEPT ![c] = Append(@, ev)]

\* send_event from its call to the suspension in its first send_text
OrderBegin ==
    /\ bq.produced < MaxEvents
    /\ Len(bq.live) < MaxLive
    /\ LET ev == bq.produced + 1
       IN  bq' = [live |-> Append(bq.live, [ev |-> ev, todo |-> Tail(SendOrder)]),
                  log |-> Written(bq.log, Head(SendOrder), ev),
                  produced |-> ev]
    /\ UNCHANGED <<turnVars, bc, pf, calls, rlast, reg, vd, evicted>>

\* the send returned; the loop sends to the next socket, or is exhausted and
\* the call returns (no send failed: nothing to clean up)
OrderSend(i) ==
    /\ i \in 1..Len(bq.live)
    /\ LET b == bq.live[i]
       IN  IF b.todo = <<>>
           THEN bq' = [bq EXCEPT !.live = RemoveAt(@, i)]
           ELSE bq' = [bq EXCEPT
                         !.live[i].todo = Tail(@),
                         !.log = Written(bq.log, Head(b.todo), b.ev)]
    /\ UNCHANGED <<turnVars, bc, pf, calls, rlast, reg, vd, evicted>>

NextOrder ==
    \/ OrderBegin
    \/ \E i \in 1..MaxLive : OrderSend(i)

SpecOrder == Init /\ [][NextOrder]_vars

\* ------------------------------------------------ the detector on its own
\* One StreamingVADState from its creation on (SpecVad): process_chunk is
\* applied to frames of several lengths with every result the VADIterator
\* can give in the state; vd keeps the state before the frame, the state
\* after it and the dict returned.
MaxVadFrames == 3

VadFrames == {Bytes(1, 0), Bytes(1, 2), Bytes(2, 640), Chunk(1)}

VadCreate ==
    /\ vd # NoVad
    /\ vd' = NoVad
    /\ UNCHANGED <<turnVars, bc, pf, calls, rlast, reg, bq, evicted>>

VadProcess(chunk, out) ==
    /\ vd.n < MaxVadFrames
    /\ out \in VadOutputs(vd.st)
    /\ LET r == process_chunk(vd.st, chunk, out)
       IN  vd' = [st |-> r.state, before |-> vd.st, out |-> out,
                  end_detected |-> r.end_detected,
                  speech_resumed |-> r.speech_resumed, n |-> vd.n + 1]
    /\ UNCHANGED <<turnVars, bc, pf, calls, rlast, reg, bq, evicted>>

NextVad ==
    \/ VadCreate
    \/ \E chunk \in VadFrames, out \in {"none", "error", "start", "end"} :
          VadProcess(chunk, out)

SpecVad == Init /\ [][NextVad]_vars

\* C1: for any turn, whatever explicit ends, confirmed endpoints and late
\* retries occur, the pipeline is started once or not at all for that turn.
C1_AtMostOnce == \A t \in 1..MaxTurns : invocations[t] <= 1

\* C2: every commit of the trigger ends with the pipeline task started or
\* with a NO_AUDIO error broadcast; no commit ends with neither.
C2_TerminalOutcome ==
    (trig.source # "none" /\ trig.st # "bcast")
        => trig.st \in {"task", "no_audio", "no_audio_cut"}

\* C3: a timer whose endpoint was followed by speech-resumed never commits,
\* and after a resume the trigger of the capture hands over everything the
\* capture received: the whole of it for audio.end, its prefix up to the
\* cutoff for a confirmed endpoint.
C3_NoLossOnResume ==
    trig.source # "none" =>
        /\ ~trig.stale
        /\ (trig.cap.started /\ trig.cap.resumed /\ ~trig.cap.released)
              => trig.audio =
                   Some(IF trig.source = "audio_end" THEN trig.cap.heard
                        ELSE BTake(trig.cap.heard, trig.cut * BYTES_PER_SAMPLE))

\* C4: an audio.end that commits after an audio.start and a sequence of
\* chunks hands over exactly the concatenation of those chunks.
C4_EndCommitsAllChunks ==
    (trig.source = "audio_end" /\ trig.cap.started /\ ~trig.cap.released)
        => trig.audio = Some(trig.cap.heard)

\* C5: a turn whose speech capabilities succeed emits, from the commit on,
\* state(processing), transcript, replyText, audioReady, state(speaking),
\* state(idle), in this order.
C5_EventOrder ==
    (trig.st = "ran" /\ trig.outcome = "success")
        => trig.events = <<"state:processing", "transcript", "replyText",
                           "audioReady", "state:speaking", "state:idle">>

\* C7: an audio.start that finds a turn in progress (no completed turn since
\* the audio.start that began it) leaves the session with that same turn.
C7_IdempotentTurnStart ==
    (trig.st = "audio_start" /\ trig.prev_turn # NoTurn)
        => /\ trig.turn = trig.prev_turn
           /\ CurrentTurn("s1") = trig.prev_turn

C7_Witness ==
    /\ trig.st = "audio_start"
    /\ trig.prev_turn # NoTurn
    /\ CurrentTurn("s1") = trig.prev_turn
    /\ Get(sessions["s1"]).status = "listening"

\* C9: deregistering a connection while another connection of the session
\* stays registered leaves the accumulator, the VAD state, the guard flag and
\* the pending timer as they were.
C9_ViewerDisconnectFrame ==
    [][\A c \in Conns :
          (/\ conn_state[c] # "closed"
           /\ conn_state'[c] = "closed"
           /\ Targets(active_connections, conn_sid[c]) \ {c} # {})
          => UNCHANGED <<audio_buffers, streaming_vad_states,
                         processing_started, endpoint_tasks, timers>>]_vars

\* C10: deregistering the last connection of a session removes the session
\* id from the connection map, releases the accumulator, the VAD state and
\* the pending timer, which is cancelled, and leaves the Session object with
\* its current turn and history as it was.
C10_LastDisconnect ==
    [][\A c \in Conns :
          (/\ conn_state[c] # "closed"
           /\ conn_state'[c] = "closed"
           /\ Targets(active_connections, conn_sid[c]) \ {c} = {})
          => /\ ~Has(active_connections'[conn_sid[c]])
             /\ ~Has(audio_buffers'[conn_sid[c]])
             /\ ~Has(streaming_vad_states'[conn_sid[c]])
             /\ endpoint_tasks'[conn_sid[c]] = 0
             /\ \A t \in 1..MaxTimers :
                   timers'[t].st = "sleeping" => timers'[t].sid # conn_sid[c]
             /\ sessions' = sessions]_vars

C10_Witness ==
    /\ cap["s1"].released
    /\ cap["s1"].cancelled
    /\ cap["s1"].n > 0
    /\ ~Has(active_connections["s1"])
    /\ \A t \in 1..MaxTimers : timers[t].st = "free"
    /\ CurrentTurn("s1") # NoTurn

\* C6: when a send raises during a broadcast, every other connection that
\* was registered and stays attached receives the event, the cleanup removes
\* the failing connections and no other, and the broadcast does not raise.
C6_BroadcastIsolation ==
    [][(bc.pc = "loop" /\ bc'.pc # "loop" /\ bc'.disconnected # {})
          => /\ bc'.pc = "done"
             /\ (bc'.start \ (bc'.disconnected \cup bc'.left))
                    \subseteq bc'.received
             /\ Targets(active_connections', bc.sid)
                    = Targets(active_connections, bc.sid) \ bc'.disconnected]_vars

\* C8: get_audio_data_up_to_samples(N) is the first min(2N, total) bytes of
\* the concatenated chunks when N > 0 and empty when N <= 0.
C8_PrefixCorrectness ==
    Has(pf.out) =>
        LET all == FlatChunks(pf.buf.chunks)
            res == Expand(Get(pf.out))
            want == IF 2 * pf.n < Len(all) THEN 2 * pf.n ELSE Len(all)
        IN  /\ Expand(get_audio_data(pf.buf)) = all
            /\ pf.buf.total_bytes = Len(all)
            /\ IF pf.n <= 0 THEN res = <<>> ELSE res = SubSeq(all, 1, want)

C8_Witness ==
    /\ Has(pf.out)
    /\ pf.n = 60
    /\ pf.buf.chunks = <<Bytes(1, 100), Bytes(2, 50), Bytes(1, 30)>>
    /\ Get(pf.out) = << <<1, 100>>, <<2, 20>> >>

\* C11: once the guard flag is set it stays set until the pipeline task of
\* the turn has finished; neither an audio.start during processing nor a
\* disconnect clears or resets it.
C11_GuardStaysSet ==
    [][\A s \in SessionIds :
          (/\ processing_started[s] = "true"
           /\ \E i \in 1..Len(tasks) : tasks[i].sid = s
           /\ Len(tasks') >= Len(tasks))
          => processing_started'[s] = "true"]_vars

\* C12: in every reachable state the current_turn of a session is set only
\* while its status is listening, processing or speaking, never while the
\* status is idle or error.
C12_SessionInvariant ==
    \A s \in SessionIds :
       (Has(sessions[s]) /\ Get(sessions[s]).current_turn # NoTurn)
       => Get(sessions[s]).status \in {"listening", "processing", "speaking"}

\* C13: whenever the status of a session becomes error, it returns to idle
\* later on, without any further client message.
C13_ErrorReturnsToIdle ==
    \A s \in SessionIds :
       (Has(sessions[s]) /\ Get(sessions[s]).status = "error")
       ~> (Has(sessions[s]) /\ Get(sessions[s]).status = "idle")

C15_NoAudioCommit ==
    (trig.source # "none" /\ trig.st # "bcast" /\ ~Truthy(trig.audio))
        => trig.st = "no_audio"

\* C16: a chunk that arrives after the guard of its session has fired is
\* dropped: the accumulator, the detector state, the timers and the guard
\* stay as they are, and the audio handed over by the trigger (held by the
\* handler that committed it and by the pipeline tasks) is not altered.
C16_LateChunkDropped ==
    [][(/\ trig'.st = "chunk"
        /\ \E c \in Speakers :
              /\ conn_state[c] = "open"
              /\ processing_started[conn_sid[c]] = "true")
       => UNCHANGED <<audio_buffers, streaming_vad_states, endpoint_tasks,
                      processing_started, timers, tasks, conn_local,
                      invocations>>]_vars

C16_Witness ==
    /\ trig.st = "chunk"
    /\ processing_started["s1"] = "true"
    /\ Has(audio_buffers["s1"])
    /\ Get(audio_buffers["s1"]).total_bytes > 0
    /\ tasks # <<>>

\* C17: a frame on which the detector raises is handled like a frame without
\* an event: the chunk is appended to the accumulator, the detector state
\* moves as for "no event", no timer is started or cancelled, the connection
\* and the session's turn stay as they are; and an audio.end after such a
\* frame commits with the whole content of the accumulator.
C17_DetectorErrorNonFatal ==
    /\ [][(/\ trig'.st = "chunk"
           /\ trig'.outcome = "error")
          => \E c \in Speakers :
               LET sid == conn_sid[c]
                   buf == IF Has(audio_buffers[sid])
                          THEN Get(audio_buffers[sid])
                          ELSE NewAudioBuffer(EmptyConfig)
                   chunk == Chunk(cap[sid].n + 1)
               IN  /\ audio_buffers'[sid] = Some(add_chunk(buf, chunk))
                   /\ streaming_vad_states'[sid] = Some(process_chunk(
                          Get(streaming_vad_states[sid]), chunk, "none").state)
                   /\ UNCHANGED <<endpoint_tasks, timers, conn_state, conn_pc,
                                  sessions, processing_started, tasks>>]_vars
    /\ [](\A c \in Speakers :
            (/\ trig.source = "audio_end"
             /\ trig.st = "bcast"
             /\ trig.cap.errored
             /\ Has(audio_buffers[conn_sid[c]]))
            => trig.audio = Some(get_audio_data(Get(audio_buffers[conn_sid[c]]))))

C17_Witness ==
    /\ trig.source = "audio_end"
    /\ trig.st = "bcast"
    /\ trig.cap.errored
    /\ trig.cap.n >= 2
    /\ Truthy(trig.audio)
    /\ BLen(Get(trig.audio)) = trig.cap.n * CHUNK_BYTES

\* C18: the registry never holds more sessions than the configured ceiling.
C18_CapacityBound == Cardinality(Held(reg)) <= MAX_CONCURRENT_SESSIONS

\* C19: no step removes from the registry a session whose turn is in
\* progress (current_turn set by audio.start and not yet completed).
C19_SweepSparesTurns ==
    [][\A id \in RegIds :
          (Has(reg[id]) /\ Get(reg[id]).current_turn # NoTurn)
          => Has(reg'[id])]_vars

\* C20: the connection set of a session holds only connections registered
\* under its id, so a broadcast for the session goes to those alone; and a
\* step that handles a message, a disconnect, a timer or a task of one
\* session leaves the accumulator, the VAD state, the guard flag, the pending
\* timer and the connection set of every other session as they were.
C20_SessionIsolation ==
    /\ [](\A s \in AllSessionIds :
            \A c \in Targets(active_connections, s) :
               conn_sid[c] = s /\ conn_state[c] # "closed")
    /\ [][\A a \in AllSessionIds :
            (\/ SessView(a)' # SessView(a)
             \/ cap'[a] # cap[a]
             \/ \E c \in Conns :
                   /\ conn_sid'[c] = a
                   /\ <<conn_state[c], conn_pc[c]>>' # <<conn_state[c], conn_pc[c]>>
             \/ \E i \in 1..Len(tasks) :
                   /\ tasks[i].sid = a
                   /\ (Len(tasks') < Len(tasks) \/ tasks'[i] # tasks[i]))
            => \A b \in AllSessionIds \ {a} : SessView(b)' = SessView(b)]_vars

C20_Witness ==
    /\ trig.source = "audio_end"
    /\ trig.st = "bcast"
    /\ Truthy(trig.audio)
    /\ processing_started["s1"] = "true"
    /\ Targets(active_connections, "s1") = {"c1"}
    /\ Targets(active_connections, "s2") = {"c3"}
    /\ Has(audio_buffers["s2"])
    /\ Has(streaming_vad_states["s2"])
    /\ processing_started["s2"] = "false"
    /\ endpoint_tasks["s2"] # 0

\* C21: a confirmation timer whose sleep is over commits a trigger only if
\* the guard has not fired and the VAD state of the session exists and
\* reports pending_endpoint; otherwise the timer task ends and leaves the
\* session state, the connections and the pipeline tasks as they were.
C21_TimerRecheck ==
    [][\A t \in 1..MaxTimers :
          timers[t].st = "sleeping" =>
             LET sid == timers[t].sid
                 vad == streaming_vad_states[sid]
                 may == /\ processing_started[sid] # "true"
                        /\ Has(vad)
                        /\ Get(vad).pending_endpoint
             IN  /\ (trig'.source = "vad_end_confirmed" /\ endpoint_tasks[sid] = t)
                       => may
                 /\ timers'[t].st = "done"
                       => /\ ~may
                          /\ UNCHANGED <<managerVars, sessions, tasks, connVars,
                                         invocations>>]_vars

C21_Witness ==
    \E t \in 1..MaxTimers :
       /\ timers[t].st = "done"
       /\ Has(audio_buffers[timers[t].sid])
       /\ Has(streaming_vad_states[timers[t].sid])
       /\ processing_started[timers[t].sid] = "false"
       /\ trig = NoTrig

C23_TimerCommitCompletes ==
    trig.source = "vad_end_confirmed" => trig.st \in {"task", "no_audio"}

C25_GuardClearsVadAndTimer ==
    \A sid \in AllSessionIds :
       processing_started[sid] = "true" =>
          /\ ~Has(streaming_vad_states[sid])
          /\ endpoint_tasks[sid] = 0
          /\ \A t \in 1..MaxTimers :
                timers[t].st \in {"sleeping", "rechecked"}
                    => timers[t].sid # sid

C25_Witness ==
    /\ trig.source = "audio_end"
    /\ trig.had_timer
    /\ processing_started["s1"] = "true"
    /\ \A t \in 1..MaxTimers : timers[t].st = "free"

\* C26: process_chunk on end-of-speech sets pending_endpoint, records the
\* current sample count as last_end_sample and reports endpoint detected; on
\* start-of-speech it reports speech resumed exactly when pending_endpoint
\* was set, and leaves it clear; on every other frame it reports no event
\* and leaves pending_endpoint and last_end_sample as they were.
C26_DetectorTransitions ==
    vd.n > 0 =>
       /\ vd.out = "end" =>
             /\ vd.st.pending_endpoint
             /\ vd.st.last_end_sample = vd.st.total_samples
             /\ vd.end_detected /\ ~vd.speech_resumed
       /\ vd.out = "start" =>
             /\ vd.speech_resumed = vd.before.pending_endpoint
             /\ ~vd.st.pending_endpoint
             /\ ~vd.end_detected
       /\ vd.out \notin {"start", "end"} =>
             /\ ~vd.end_detected /\ ~vd.speech_resumed
             /\ vd.st.pending_endpoint = vd.before.pending_endpoint
             /\ vd.st.last_end_sample = vd.before.last_end_sample

C26_Witness ==
    /\ vd.out = "start"
    /\ vd.before.pending_endpoint
    /\ vd.speech_resumed
    /\ vd.st.total_samples > vd.before.total_samples

\* C27: after each chunk that has been handled, the detector's sample
\* counter equals the number of 16-bit samples the session's accumulator
\* holds, and last_end_sample is an offset into that accumulator.
C27_CounterMatchesAccumulator ==
    \A sid \in SessionIds :
       ( /\ trig.st = "chunk"
         /\ Has(streaming_vad_states[sid])
         /\ Has(audio_buffers[sid]) )
       => LET vad == Get(streaming_vad_states[sid])
              held == Get(audio_buffers[sid]).total_bytes \div BYTES_PER_SAMPLE
          IN  /\ vad.total_samples = held
              /\ vad.last_end_sample <= held

\* C28: at any time at most one confirmation timer task of a session is
\* pending: an endpoint detected while a timer is pending starts no second
\* timer, and the entry of the session names the pending one.
C28_OnePendingTimer ==
    \A sid \in AllSessionIds :
       LET pending == {t \in 1..MaxTimers :
                          /\ timers[t].st \in {"sleeping", "rechecked"}
                          /\ timers[t].sid = sid}
       IN  /\ Cardinality(pending) <= 1
           /\ pending \subseteq {endpoint_tasks[sid]}

C28_Witness ==
    /\ trig.st = "chunk"
    /\ trig.outcome = "end"
    /\ trig.had_timer
    /\ Cardinality({t \in 1..MaxTimers : timers[t].st = "sleeping"}) = 1

\* C29: every VAD-path commit is made by a timer whose whole confirmation
\* window lies after the detection of the endpoint it confirms and contains
\* no speech-resumed event: a timer that was started before the detector
\* state of the endpoint existed never commits.
C29_FullWindow ==
    trig.source = "vad_end_confirmed" => (~trig.old /\ ~trig.stale)

C31_SameOrder ==
    \A c \in Conns :
       \A i, j \in 1..Len(bq.log[c]) :
          i < j => bq.log[c][i] < bq.log[c][j]

\* C32: an audio.start received while a turn is active creates no new turn
\* and leaves the accumulator, the guard flag and the VAD state of the
\* session as they were.
C32_ActiveStartNoOp ==
    [][(trig'.st = "audio_start" /\ CurrentTurn("s1") # NoTurn)
          => /\ CurrentTurn("s1")' = CurrentTurn("s1")
             /\ next_turn' = next_turn
             /\ audio_buffers'["s1"] = audio_buffers["s1"]
             /\ processing_started'["s1"] = processing_started["s1"]
             /\ streaming_vad_states'["s1"] = streaming_vad_states["s1"]]_vars

\* C33: the cleanup at the end of a turn's pipeline task removes only state
\* of that turn: the accumulator and the guard flag of a capture begun after
\* the task's commit and before its end stay as they are.
C33_CleanupOwnTurnOnly ==
    [][(/\ Len(tasks') < Len(tasks)
        /\ cap["s1"].started
        /\ cap["s1"].n > 0
        /\ Has(audio_buffers["s1"]))
          => /\ audio_buffers'["s1"] = audio_buffers["s1"]
             /\ processing_started'["s1"] = processing_started["s1"]]_vars

\* C34: in every call of the runner, state(speaking) is broadcast only after
\* the call's replyText and audioReady; a call whose synthesis produced no
\* file broadcasts neither audioReady nor state(speaking) and never assigns
\* the speaking status.
RunnerRecords ==
    {calls[i] : i \in 1..Len(calls)}
        \cup (IF rlast.kind = "returned" THEN {rlast} ELSE {})

Precedes(events, a, b) ==
    \A j \in 1..Len(events) :
       events[j] = b => \E k \in 1..(j - 1) : events[k] = a

C34_SpeakingNeedsAudio ==
    \A r \in RunnerRecords :
       /\ Precedes(r.events, "replyText", "state:speaking")
       /\ Precedes(r.events, "audioReady", "state:speaking")
       /\ r.spoke => r.tts = "file"
       /\ r.tts = "none" =>
             \A j \in 1..Len(r.events) :
                r.events[j] \notin {"audioReady", "state:speaking"}

C34_Witness ==
    /\ rlast.kind = "returned"
    /\ rlast.ok
    /\ rlast.tts = "none"
    /\ rlast.events = <<"state:processing", "transcript", "replyText",
                        "state:idle">>
    /\ Len(calls) = 1
    /\ calls[1].tts = "file"
    /\ calls[1].turn # rlast.turn
    /\ calls[1].events = <<"state:processing", "transcript", "replyText",
                           "audioReady", "state:speaking">>

\* C35: a broadcast that was suspended in a send while a connection of the
\* session was registered or deregistered, the last one included, goes on
\* to its end: send_event never raises.
C35_BroadcastSurvivesChange ==
    [][(bc.pc = "loop" /\ SizeChanged) => bc'.pc # "raised"]_vars

\* C36: a state(processing) event broadcast for a session is followed by a
\* state(idle) event whatever the outcome of the pipeline: by the time the
\* call that broadcast it has returned, it has broadcast state(idle) after
\* it, while a connection stays attached.
C36_ProcessingThenIdle ==
    (rlast.kind = "returned" /\ Targets(active_connections, "s1") # {})
        => \A j \in 1..Len(rlast.events) :
              rlast.events[j] = "state:processing"
                  => \E k \in (j + 1)..Len(rlast.events) :
                        rlast.events[k] = "state:idle"

\* C37: a create_session call removes at most one session, and only an idle
\* one whose updated_at is the oldest among the idle sessions; a session
\* that is not idle is never removed by the eviction.
C37_EvictOldestIdle ==
    [][\A sid \in RegIds :
          (~Has(reg[sid]) /\ Has(reg'[sid]))
          => LET removed == {id \in RegIds : Has(reg[id]) /\ ~Has(reg'[id])}
             IN  /\ Cardinality(removed) <= 1
                 /\ \A id \in removed :
                       /\ Get(reg[id]).status = "idle"
                       /\ \A o \in RegIds :
                             (Has(reg[o]) /\ Get(reg[o]).status = "idle")
                                 => Get(reg[o]).age <= Get(reg[id]).age
                 /\ \A id \in RegIds :
                       (Has(reg[id]) /\ Get(reg[id]).status # "idle")
                           => reg'[id] = reg[id]]_vars

C37_Witness ==
    /\ evicted.full
    /\ Cardinality(evicted.removed) = 1
    /\ Has(reg[Get(evicted.by)])
    /\ Get(reg[Get(evicted.by)]).age = 0
    /\ \E o \in Held(reg) :
          /\ o # Get(evicted.by)
          /\ Get(reg[o]).status = "idle"
          /\ Get(reg[o]).age = 1

\* C38: the session stays usable after a terminal outcome.  In a capture
\* begun by an audio.start after the pipeline task of an earlier turn has
\* finished, once non-empty chunks have arrived and while the connection is
\* attached, an audio.end commits a trigger that invokes the pipeline: the
\* guard flag is not set and the accumulator holds the chunks.
C38_UsableAfterTurn ==
    \A c \in Speakers :
       (/\ conn_state[c] = "open"
        /\ conn_pc[c] = "receive"
        /\ cap[conn_sid[c]].again
        /\ cap[conn_sid[c]].n > 0
        /\ ~cap[conn_sid[c]].released)
       => /\ processing_started[conn_sid[c]] # "true"
          /\ Has(audio_buffers[conn_sid[c]])
          /\ get_audio_data(Get(audio_buffers[conn_sid[c]])) = cap[conn_sid[c]].heard

\* C39: the turn history of a session is append-only.  No step removes or
\* reorders an appended turn or changes one of its fields, a turn is in the
\* history at most once, and the current turn is never in the history, also
\* when a second call of the runner for the turn goes on after the turn was
\* completed.
C39_HistoryAppendOnly ==
    [][\A s \in SessionIds :
          (Has(sessions[s]) /\ Has(sessions'[s]))
          => LET old == Get(sessions[s])
                 new == Get(sessions'[s])
             IN  /\ Len(new.turns) >= Len(old.turns)
                 /\ \A k \in 1..Len(old.turns) :
                       /\ new.turns[k] = old.turns[k]
                       /\ new.written[old.turns[k]] = old.written[old.turns[k]]
                 /\ \A j, k \in 1..Len(new.turns) :
                       j # k => new.turns[j] # new.turns[k]
                 /\ \A k \in 1..Len(new.turns) :
                       new.turns[k] # new.current_turn]_vars

C39_Witness ==
    /\ Has(sessions["s1"])
    /\ Get(sessions["s1"]).turns = <<1>>
    /\ Get(sessions["s1"]).current_turn = 2
    /\ Get(sessions["s1"]).written[1] = [transcript |-> 1, audio_path |-> 1]
    /\ Get(sessions["s1"]).written[2].transcript = 1
    /\ rlast.kind = "returned"
    /\ rlast.turn = 1

====
